---- MODULE Spec2Model ----
(***************************************************************************)
(* configlite: a Repository over two sqlite tables.                        *)
(*   applications(name)                                                     *)
(*   configurations(application_name, configuration_name,                   *)
(*                  configuration_value)                                     *)
(* A table is a multiset (bag) of rows: a function from the rows present   *)
(* to their number of copies.  Every Repository method is one SQL           *)
(* statement, hence one atomic step on the tables.                          *)
(* Strings that SQL inspects character by character (configuration names   *)
(* and LIKE patterns) are sequences of one-character strings.               *)
(***************************************************************************)
EXTENDS Naturals, Sequences, FiniteSets, Bags

VARIABLES
    applications,    \* table applications: bag of names
    configurations,  \* table configurations: bag of rows
    call,            \* the last Repository call: method and arguments
    err,             \* the error the last call returned
    ret,             \* the value the last call returned
    before,          \* both tables as they were when the last call started
    writers          \* concurrent writer processes (used by SpecWriters only)

vars == <<applications, configurations, call, err, ret, before, writers>>

----------------------------------------------------------------------------
(* Bounds and input sets *)

MaxRows == 3        \* cap on the number of rows of configurations
NumWriters == 2     \* number of concurrent writer processes in SpecWriters

Apps == {"app1", "app2"}
Values == {"v1", "v2"}
ConfigNames == { <<"a", "b">>, <<"_">>, <<"%">> }
Patterns == ConfigNames \cup { <<"a", "%">>, <<"A", "B">> }

----------------------------------------------------------------------------
(* Errors *)

(* An error is the tuple of its message and the values formatted into it;  *)
(* no error is the empty tuple.                                             *)

Nil == <<>>
ErrConfigNotFound == "configuration value not found"
ErrConfigNotFoundFor(applicationName, configName) ==
    <<ErrConfigNotFound, applicationName, configName>>
ErrNoRowsAffected(numRows) == <<"unexpected number of affected rows", numRows>>
\* what the engine answers to an insert that breaks a uniqueness constraint
ErrConstraint == <<"UNIQUE constraint failed">>

----------------------------------------------------------------------------
(* Tables *)

Row(applicationName, configName, configValue) ==
    [application_name |-> applicationName,
     configuration_name |-> configName,
     configuration_value |-> configValue]

InsertRow(table, row) == table (+) SetToBag({row})

\* number of rows (with copies) of table among the set rows
NumRows(table, rows) == BagCardinality([r \in rows |-> table[r]])

\* table without the rows of the set rows
DeleteRows(table, rows) == [r \in (DOMAIN table) \ rows |-> table[r]]

\* applications(name TEXT UNIQUE PRIMARY KEY): an insert of name conflicts
AppNameConflict(name) == name \in DOMAIN applications

\* UNIQUE(application_name, configuration_name): an insert of the pair conflicts
ConfigConflictRows(applicationName, configName) ==
    {r \in DOMAIN configurations :
        /\ r.application_name = applicationName
        /\ r.configuration_name = configName}

----------------------------------------------------------------------------
(* SQL LIKE: '%' matches any run of characters, '_' exactly one character, *)
(* any other character matches itself, ASCII letters regardless of case.   *)

Lower(c) == IF c = "A" THEN "a" ELSE IF c = "B" THEN "b" ELSE c

RECURSIVE Like(_, _)
Like(pattern, str) ==
    IF pattern = <<>> THEN str = <<>>
    ELSE IF Head(pattern) = "%"
         THEN \E i \in 0..Len(str) :
                 Like(Tail(pattern), SubSeq(str, i + 1, Len(str)))
    ELSE IF str = <<>> THEN FALSE
    ELSE IF Head(pattern) = "_" THEN Like(Tail(pattern), Tail(str))
    ELSE /\ Lower(Head(pattern)) = Lower(Head(str))
         /\ Like(Tail(pattern), Tail(str))

----------------------------------------------------------------------------
(* Bookkeeping of a call *)

Call(op, applicationName, configName, configValue, likePattern) ==
    [op |-> op, app |-> applicationName, name |-> configName,
     value |-> configValue, like |-> likePattern]

Tables == [applications |-> applications, configurations |-> configurations]

NoCall == Call("New", "", <<>>, "", FALSE)

Init ==
    /\ applications = EmptyBag
    /\ configurations = EmptyBag
    /\ call = NoCall
    /\ err = Nil
    /\ ret = ""
    /\ before = [applications |-> EmptyBag, configurations |-> EmptyBag]
    /\ writers = <<>>

----------------------------------------------------------------------------
(* Repository methods *)

GetApps ==
    /\ call' = Call("GetApps", "", <<>>, "", FALSE)
    /\ before' = Tables
    /\ ret' = applications
    /\ err' = Nil
    /\ UNCHANGED <<applications, configurations>>

\* GetConfigs whose query lacks the WHERE application_name = ? clause
ConfigMapsAllApps(applicationName) ==
    LET rows == DOMAIN configurations
        names == {r.configuration_name : r \in rows}
    IN  {m \in [names -> {r.configuration_value : r \in rows}] :
            \A n \in names : \E r \in rows : /\ r.configuration_name = n
                                             /\ r.configuration_value = m[n]}

\* the maps the loop of GetConfigs can build from the rows of the application
ConfigMaps(applicationName) ==
    LET rows == {r \in DOMAIN configurations : r.application_name = applicationName}
        names == {r.configuration_name : r \in rows}
    IN  {m \in [names -> {r.configuration_value : r \in rows}] :
            \A n \in names : \E r \in rows : /\ r.configuration_name = n
                                             /\ r.configuration_value = m[n]}

GetConfigs(applicationName) ==
    /\ call' = Call("GetConfigs", applicationName, <<>>, "", FALSE)
    /\ before' = Tables
    /\ ret' \in ConfigMaps(applicationName)
    /\ err' = Nil
    /\ UNCHANGED <<applications, configurations>>

\* the query of GetConfig without the application_name = ? condition
GetConfigQueryAnyApp(applicationName, configName) ==
    {r \in DOMAIN configurations : r.configuration_name = configName}

\* the rows the query of GetConfig selects
GetConfigQuery(applicationName, configName) ==
    {r \in DOMAIN configurations :
        /\ r.application_name = applicationName
        /\ r.configuration_name = configName}

\* the outcomes of GetConfig: the value of the first row the query yields,
\* ErrConfigNotFound when it yields none
GetConfigResults(applicationName, configName) ==
    LET rows == GetConfigQuery(applicationName, configName)
    IN  IF rows = {}
        THEN {[ret |-> "", err |-> ErrConfigNotFoundFor(applicationName, configName)]}
        ELSE {[ret |-> r.configuration_value, err |-> Nil] : r \in rows}

GetConfig(applicationName, configName) ==
    /\ call' = Call("GetConfig", applicationName, configName, "", FALSE)
    /\ before' = Tables
    /\ \E res \in GetConfigResults(applicationName, configName) :
          ret' = res.ret /\ err' = res.err
    /\ UNCHANGED <<applications, configurations>>

\* MustRegisterApplication with the ON CONFLICT DO NOTHING of RegisterApplication
MustRegisterApplicationDoNothing(applicationName) ==
    /\ call' = Call("MustRegisterApplication", applicationName, <<>>, "", FALSE)
    /\ before' = Tables
    /\ ret' = ""
    /\ err' = Nil
    /\ IF AppNameConflict(applicationName)
       THEN applications' = applications
       ELSE applications' = InsertRow(applications, applicationName)
    /\ UNCHANGED configurations

MustRegisterApplication(applicationName) ==
    /\ call' = Call("MustRegisterApplication", applicationName, <<>>, "", FALSE)
    /\ before' = Tables
    /\ ret' = ""
    /\ IF AppNameConflict(applicationName)
       THEN err' = ErrConstraint /\ applications' = applications
       ELSE err' = Nil /\ applications' = InsertRow(applications, applicationName)
    /\ UNCHANGED configurations

\* RegisterApplication without its ON CONFLICT DO NOTHING clause
RegisterApplicationStrict(applicationName) ==
    /\ call' = Call("RegisterApplication", applicationName, <<>>, "", FALSE)
    /\ before' = Tables
    /\ ret' = ""
    /\ IF AppNameConflict(applicationName)
       THEN err' = ErrConstraint /\ applications' = applications
       ELSE err' = Nil /\ applications' = InsertRow(applications, applicationName)
    /\ UNCHANGED configurations

RegisterApplication(applicationName) ==
    /\ call' = Call("RegisterApplication", applicationName, <<>>, "", FALSE)
    /\ before' = Tables
    /\ ret' = ""
    /\ err' = Nil
    /\ IF AppNameConflict(applicationName)
       THEN applications' = applications
       ELSE applications' = InsertRow(applications, applicationName)
    /\ UNCHANGED configurations

\* UpsertConfig with ON CONFLICT ... DO NOTHING in place of DO UPDATE SET
UpsertConfigDoNothing(applicationName, configName, configValue) ==
    LET conflict == ConfigConflictRows(applicationName, configName)
    IN  /\ conflict = {} => BagCardinality(configurations) < MaxRows
        /\ call' = Call("UpsertConfig", applicationName, configName, configValue, FALSE)
        /\ before' = Tables
        /\ ret' = ""
        /\ err' = Nil
        /\ IF conflict = {}
           THEN configurations' =
                    InsertRow(configurations, Row(applicationName, configName, configValue))
           ELSE configurations' = configurations
        /\ UNCHANGED applications

\* UpsertConfig as a read-check-then-write: the existence check reads the table
\* as it was before the previous call, the write is an insert or an update
UpsertConfigStaleCheck(applicationName, configName, configValue) ==
    LET seen == {r \in DOMAIN before.configurations :
                    /\ r.application_name = applicationName
                    /\ r.configuration_name = configName}
        conflict == ConfigConflictRows(applicationName, configName)
    IN  /\ BagCardinality(configurations) < MaxRows
        /\ call' = Call("UpsertConfig", applicationName, configName, configValue, FALSE)
        /\ before' = Tables
        /\ ret' = ""
        /\ err' = Nil
        /\ IF seen = {}
           THEN configurations' =
                    InsertRow(configurations, Row(applicationName, configName, configValue))
           ELSE configurations' =
                    DeleteRows(configurations, conflict) (+)
                    SetToBag({Row(applicationName, configName, configValue)})
        /\ UNCHANGED applications

UpsertConfig(applicationName, configName, configValue) ==
    LET conflict == ConfigConflictRows(applicationName, configName)
    IN  /\ conflict = {} => BagCardinality(configurations) < MaxRows
        /\ call' = Call("UpsertConfig", applicationName, configName, configValue, FALSE)
        /\ before' = Tables
        /\ ret' = ""
        /\ err' = Nil
        /\ IF conflict = {}
           THEN configurations' =
                    InsertRow(configurations, Row(applicationName, configName, configValue))
           ELSE configurations' =
                    DeleteRows(configurations, conflict) (+)
                    SetToBag({Row(applicationName, configName, configValue)})
        /\ UNCHANGED applications

\* the DELETE statement with LIKE in both modes
DeleteQueryAlwaysLike(applicationName, configName, likePattern) ==
    {r \in DOMAIN configurations :
        /\ r.application_name = applicationName
        /\ Like(configName, r.configuration_name)}

\* the DELETE statement without the application_name = ? condition
DeleteQueryAnyApp(applicationName, configName, likePattern) ==
    {r \in DOMAIN configurations :
        IF likePattern
        THEN Like(configName, r.configuration_name)
        ELSE r.configuration_name = configName}

\* the rows the WHERE clause of the DELETE statement selects
DeleteQuery(applicationName, configName, likePattern) ==
    {r \in DOMAIN configurations :
        /\ r.application_name = applicationName
        /\ IF likePattern
           THEN Like(configName, r.configuration_name)
           ELSE r.configuration_name = configName}

\* DeleteConfig without the check of the number of affected rows
DeleteConfigSilent(applicationName, configName, likePattern) ==
    LET rows == {r \in DOMAIN configurations :
                    /\ r.application_name = applicationName
                    /\ IF likePattern
                       THEN Like(configName, r.configuration_name)
                       ELSE r.configuration_name = configName}
    IN  /\ call' = Call("DeleteConfig", applicationName, configName, "", likePattern)
        /\ before' = Tables
        /\ ret' = ""
        /\ configurations' = DeleteRows(configurations, rows)
        /\ err' = Nil
        /\ UNCHANGED applications

DeleteConfig(applicationName, configName, likePattern) ==
    LET rows == DeleteQuery(applicationName, configName, likePattern)
        numRows == NumRows(configurations, rows)
    IN  /\ call' = Call("DeleteConfig", applicationName, configName, "", likePattern)
        /\ before' = Tables
        /\ ret' = ""
        /\ configurations' = DeleteRows(configurations, rows)
        /\ err' = IF numRows = 0 THEN ErrNoRowsAffected(numRows) ELSE Nil
        /\ UNCHANGED applications

----------------------------------------------------------------------------
(* Command line: upsert-config opens the database and upserts. *)

UpsertConfigCmd(Application, Configuration, Value) ==
    UpsertConfig(Application, Configuration, Value)

----------------------------------------------------------------------------
(* Concurrent writers: processes on the same database, each about to call *)
(* UpsertConfig once, all on the same (application, configuration) pair.   *)

Writers == 1..NumWriters

InitWriters ==
    /\ \E registered \in SUBSET Apps : applications = SetToBag(registered)
    /\ \E rows \in SUBSET {Row(a, k, v) : a \in Apps, k \in ConfigNames, v \in Values} :
          /\ Cardinality(rows) <= 1
          /\ configurations = SetToBag(rows)
    /\ call = NoCall
    /\ err = Nil
    /\ ret = ""
    /\ before = Tables
    /\ \E a \in Apps, k \in ConfigNames :
          writers \in [Writers -> [pc : {"ready"}, app : {a}, name : {k},
                                   value : Values, err : {Nil}]]

WriterUpsert(w) ==
    /\ writers[w].pc = "ready"
    /\ UpsertConfig(writers[w].app, writers[w].name, writers[w].value)
    /\ writers' = [writers EXCEPT ![w].pc = "done", ![w].err = err']

NextWriters == \E w \in Writers : WriterUpsert(w)

SpecWriters == InitWriters /\ [][NextWriters]_vars

----------------------------------------------------------------------------

Next ==
    \/ GetApps /\ UNCHANGED writers
    \/ \E a \in Apps : GetConfigs(a) /\ UNCHANGED writers
    \/ \E a \in Apps, k \in ConfigNames : GetConfig(a, k) /\ UNCHANGED writers
    \/ \E a \in Apps : MustRegisterApplication(a) /\ UNCHANGED writers
    \/ \E a \in Apps : RegisterApplication(a) /\ UNCHANGED writers
    \/ \E a \in Apps, k \in ConfigNames, v \in Values :
          UpsertConfig(a, k, v) /\ UNCHANGED writers
    \/ \E a \in Apps, k \in Patterns, l \in BOOLEAN :
          DeleteConfig(a, k, l) /\ UNCHANGED writers
    \/ \E a \in Apps, k \in ConfigNames, v \in Values :
          UpsertConfigCmd(a, k, v) /\ UNCHANGED writers

Spec == Init /\ [][Next]_vars

----------------------------------------------------------------------------
(* Properties *)

\* the rows of table stored for the pair (applicationName, configName)
Entries(table, applicationName, configName) ==
    {r \in DOMAIN table : /\ r.application_name = applicationName
                          /\ r.configuration_name = configName}

\* the rows of table stored for applicationName
EntriesOfApp(table, applicationName) ==
    {r \in DOMAIN table : r.application_name = applicationName}

\* the rows of table a delete of (applicationName, configName) is to match
Matching(table, applicationName, configName, likePattern) ==
    {r \in EntriesOfApp(table, applicationName) :
        IF likePattern THEN Like(configName, r.configuration_name)
                       ELSE r.configuration_name = configName}

\* C1: every application registered so far is listed exactly once by GetApps,
\* whatever the number of RegisterApplication calls; a repeated
\* RegisterApplication returns no error and leaves the applications unchanged.
C1_RegisteredListedOnce ==
    /\ \A a \in DOMAIN applications : applications[a] = 1
    /\ \A a \in DOMAIN before.applications : a \in DOMAIN applications
    /\ call.op = "RegisterApplication" =>
          /\ err = Nil
          /\ CopiesIn(call.app, applications) = 1
          /\ (call.app \in DOMAIN before.applications
                 => applications = before.applications)
          /\ configurations = before.configurations
    /\ call.op = "GetApps" =>
          /\ err = Nil
          /\ \A a \in DOMAIN before.applications : CopiesIn(a, ret) = 1
          /\ \A a \in Apps \ DOMAIN before.applications : CopiesIn(a, ret) = 0

\* a RegisterApplication of an application that was registered already
C1_Witness ==
    /\ call.op = "RegisterApplication"
    /\ call.app \in DOMAIN before.applications
    /\ err = Nil
    /\ before.configurations # EmptyBag

\* C2: UpsertConfig(A, K, V) leaves exactly one entry for (A, K), whatever was
\* stored for it before (a first UpsertConfig(A, K, V1) included); GetConfig(A, K)
\* then returns V and GetConfigs(A) maps K to V; no reachable state holds two
\* entries for one (application, configuration) pair.
C2_UpsertLastValueWins ==
    /\ \A a \in Apps, k \in ConfigNames :
          NumRows(configurations, Entries(configurations, a, k)) <= 1
    /\ call.op = "UpsertConfig" =>
          /\ err = Nil
          /\ Entries(configurations, call.app, call.name)
                = {Row(call.app, call.name, call.value)}
          /\ GetConfigResults(call.app, call.name) = {[ret |-> call.value, err |-> Nil]}
          /\ ConfigMaps(call.app) # {}
          /\ \A m \in ConfigMaps(call.app) :
                call.name \in DOMAIN m /\ m[call.name] = call.value

\* an UpsertConfig(A, K, V2) on a store that held (A, K, V1), V1 # V2
C2_Witness ==
    /\ call.op = "UpsertConfig"
    /\ \E r \in Entries(before.configurations, call.app, call.name) :
          r.configuration_value # call.value

\* C3: GetConfig(A, K) returns the stored value and no error exactly when an
\* entry for (A, K) is stored, and ErrConfigNotFound carrying A and K otherwise,
\* whatever is stored for A under other names or for K under other applications;
\* an entry for (A, K) comes to exist only by an UpsertConfig of (A, K).
C3_GetConfigNotFound ==
    /\ \A a \in Apps, k \in ConfigNames :
          (Entries(configurations, a, k) # {} /\ Entries(before.configurations, a, k) = {})
             => (call.op = "UpsertConfig" /\ call.app = a /\ call.name = k)
    /\ call.op = "GetConfig" =>
          LET rows == Entries(before.configurations, call.app, call.name)
          IN  IF rows = {}
              THEN err = <<ErrConfigNotFound, call.app, call.name>> /\ ret = ""
              ELSE err = Nil /\ rows = {Row(call.app, call.name, ret)}

\* a GetConfig(A, K) that fails although A has an entry under another name and
\* K is stored for another application
C3_Witness ==
    /\ call.op = "GetConfig"
    /\ err = <<ErrConfigNotFound, call.app, call.name>>
    /\ EntriesOfApp(configurations, call.app) # {}
    /\ \E a \in Apps \ {call.app} : Entries(configurations, a, call.name) # {}

\* C4: DeleteConfig(A, K, false) of a stored entry (A, K) returns no error and
\* removes that entry and nothing else, also when K holds wildcard characters;
\* GetConfig(A, K) fails with ErrConfigNotFound afterwards.
C4_ExactDeleteRemovesOne ==
    (/\ call.op = "DeleteConfig"
     /\ ~call.like
     /\ Entries(before.configurations, call.app, call.name) # {})
    => /\ err = Nil
       /\ configurations =
             DeleteRows(before.configurations,
                        Entries(before.configurations, call.app, call.name))
       /\ BagCardinality(configurations) + 1 = BagCardinality(before.configurations)
       /\ applications = before.applications
       /\ GetConfigResults(call.app, call.name) =
             {[ret |-> "", err |-> <<ErrConfigNotFound, call.app, call.name>>]}

\* an exact delete of a name with a wildcard that, as a pattern, matches another
\* entry of the application, which is still stored
C4_Witness ==
    /\ call.op = "DeleteConfig"
    /\ ~call.like
    /\ err = Nil
    /\ \E c \in {"%", "_"} : \E i \in 1..Len(call.name) : call.name[i] = c
    /\ EntriesOfApp(configurations, call.app) # {}
    /\ \A r \in EntriesOfApp(configurations, call.app) :
          Like(call.name, r.configuration_name)

\* C5: DeleteConfig, exact or by pattern, returns an error exactly when no entry
\* of the application matches, and then leaves both tables as they were.
C5_DeleteErrorIffNoMatch ==
    call.op = "DeleteConfig" =>
       LET rows == Matching(before.configurations, call.app, call.name, call.like)
       IN  /\ (err # Nil) <=> (rows = {})
           /\ err # Nil => /\ err = ErrNoRowsAffected(0)
                           /\ configurations = before.configurations
                           /\ applications = before.applications
           /\ err = Nil => BagCardinality(configurations)
                              < BagCardinality(before.configurations)

\* a delete by pattern that fails although the application has entries and
\* another application has an entry the pattern matches
C5_Witness ==
    /\ call.op = "DeleteConfig"
    /\ call.like
    /\ err = ErrNoRowsAffected(0)
    /\ EntriesOfApp(configurations, call.app) # {}
    /\ \E r \in DOMAIN configurations : Like(call.name, r.configuration_name)

\* C6: DeleteConfig(A, P, true) removes every entry of A whose name matches P and
\* leaves every other entry, of A or of another application, as it was.
C6_PatternDeleteFrame ==
    (call.op = "DeleteConfig" /\ call.like) =>
       /\ configurations =
             DeleteRows(before.configurations,
                        {r \in DOMAIN before.configurations :
                            /\ r.application_name = call.app
                            /\ Like(call.name, r.configuration_name)})
       /\ \A r \in DOMAIN configurations :
             r.application_name = call.app => ~Like(call.name, r.configuration_name)
       /\ applications = before.applications

\* a delete by a pattern with wildcards that removed an entry of A, left an
\* entry of A the pattern does not match and left an entry of another
\* application that it does match
C6_Witness ==
    /\ call.op = "DeleteConfig"
    /\ call.like
    /\ err = Nil
    /\ \E i \in 1..Len(call.name) : call.name[i] = "%"
    /\ EntriesOfApp(configurations, call.app) # {}
    /\ \E r \in DOMAIN configurations :
          r.application_name # call.app /\ Like(call.name, r.configuration_name)

\* C7: GetConfigs(A) returns no error and the map of exactly the (name, value)
\* pairs stored for A, the empty map when A has no entry.
C7_GetConfigsExact ==
    call.op = "GetConfigs" =>
       LET rows == EntriesOfApp(before.configurations, call.app)
       IN  /\ err = Nil
           /\ DOMAIN ret = {r.configuration_name : r \in rows}
           /\ {<<n, ret[n]>> : n \in DOMAIN ret}
                 = {<<r.configuration_name, r.configuration_value>> : r \in rows}
           /\ rows = {} => ret = <<>>

\* a GetConfigs(A) with entries to return while another application has an
\* entry under a name A does not have
C7_Witness ==
    /\ call.op = "GetConfigs"
    /\ DOMAIN ret # {}
    /\ \E r \in DOMAIN configurations :
          r.application_name # call.app /\ r.configuration_name \notin DOMAIN ret

C9_MustRegisterStrict ==
    call.op = "MustRegisterApplication" =>
       /\ configurations = before.configurations
       /\ IF call.app \in DOMAIN before.applications
          THEN err = ErrConstraint /\ applications = before.applications
          ELSE err = Nil /\ applications = before.applications (+) SetToBag({call.app})

\* a MustRegisterApplication of a registered application, entries being stored
C9_Witness ==
    /\ call.op = "MustRegisterApplication"
    /\ err = ErrConstraint
    /\ call.app \in DOMAIN applications
    /\ configurations # EmptyBag

\* C10: the application of every stored configuration entry is an application
\* GetApps lists.
C10_EntriesReferenceApplication ==
    \A r \in DOMAIN configurations : r.application_name \in DOMAIN applications

====
